---- MODULE Spec2Model ----
(***************************************************************************)
(* A model of lbxd.py: the threaded request runner threaded_api_request    *)
(* (with its nested error_handler and runner) and the identifier codec     *)
(* encode_id / decode_id.                                                  *)
(***************************************************************************)
EXTENDS Integers, Sequences, FiniteSets, TLC

\* ------------------------------------------------------------------ bounds
MaxTargets == 2
MaxRetries == 1
MaxThreads == 2
MaxPrintEvery == 2
\* ids from -MaxNegId to MaxSmallId, and ids next to the powers of two up
\* to 2^MaxExp, are handed to the codec
MaxSmallId == 12
MaxNegId == 2
MaxExp == 53
\* get_member_watchlist is answered with at most MaxPages pages of at most
\* MaxItems items each
MaxPages == 3
MaxItems == 1

\* ------------------------------------------------------------------ values
\* Python's None: what error_handler returns for a missing or failed url.
None == "None"

\* What res.json() may parse a response body to: "{}" is an empty JSON
\* object, "{a}" a non-empty one.
Payloads == {"{}", "{a}"}

\* The exceptions an attempt may raise, by the stage that raises them and by
\* str(e)[0:3], the only part of the error the handler looks at.
Errors ==
    { [stage |-> "api_request", str3 |-> "404"],
      [stage |-> "api_request", str3 |-> "500"],
      [stage |-> "json",        str3 |-> "Exp"] }

\* No exception: what a future holds when error_handler returned.
NoException == [stage |-> "", str3 |-> ""]

\* The i-th url of the list handed to threaded_api_request.
Url(i) == <<"url", i>>

\* ------------------------------------------------------- Python integers
\* Python's int has no width.  A natural number is the list of its digits in
\* base LimbBase, least significant first, without leading zeros; an int is
\* a sign and a natural number.
LimbBase == 100 * 100

Zero == <<>>

RECURSIVE Norm(_)
Norm(a) ==
    IF a = <<>> THEN <<>>
    ELSE IF a[Len(a)] = 0 THEN Norm(SubSeq(a, 1, Len(a) - 1))
    ELSE a

RECURSIVE FromNat(_)
FromNat(n) ==
    IF n = 0 THEN <<>> ELSE <<n % LimbBase>> \o FromNat(n \div LimbBase)

\* a + k, for 0 <= k
RECURSIVE AddSmall(_, _)
AddSmall(a, k) ==
    IF k = 0 THEN a
    ELSE IF a = <<>> THEN FromNat(k)
    ELSE LET t == a[1] + k IN
         <<t % LimbBase>> \o AddSmall(Tail(a), t \div LimbBase)

\* a - k, for 0 <= k < LimbBase and k <= a
RECURSIVE SubSmall(_, _)
SubSmall(a, k) ==
    IF k = 0 THEN a
    ELSE IF a[1] >= k THEN Norm(<<a[1] - k>> \o Tail(a))
    ELSE <<a[1] + LimbBase - k>> \o SubSmall(Tail(a), 1)

\* a * k + c, for 0 <= k and 0 <= c
RECURSIVE MulAdd(_, _, _)
MulAdd(a, k, c) ==
    IF a = <<>> THEN FromNat(c)
    ELSE LET t == a[1] * k + c IN
         <<t % LimbBase>> \o MulAdd(Tail(a), k, t \div LimbBase)

MulSmall(a, k) == Norm(MulAdd(a, k, 0))

\* divmod(a, d), for 0 < d
RECURSIVE DivModSmall(_, _)
DivModSmall(a, d) ==
    IF a = <<>> THEN [q |-> <<>>, r |-> 0]
    ELSE LET hi == DivModSmall(Tail(a), d)
             cur == hi.r * LimbBase + a[1]
         IN [q |-> Norm(<<cur \div d>> \o hi.q), r |-> cur % d]

\* a + b + c, for a carry c
RECURSIVE AddBig(_, _, _)
AddBig(a, b, c) ==
    IF a = <<>> THEN AddSmall(b, c)
    ELSE IF b = <<>> THEN AddSmall(a, c)
    ELSE LET t == a[1] + b[1] + c IN
         <<t % LimbBase>> \o AddBig(Tail(a), Tail(b), t \div LimbBase)

\* a * 2^s
RECURSIVE ShiftLeft(_, _)
ShiftLeft(a, s) ==
    IF a = <<>> \/ s = 0 THEN a ELSE ShiftLeft(MulSmall(a, 2), s - 1)

\* a // 2^s
RECURSIVE ShiftRight(_, _)
ShiftRight(a, s) ==
    IF a = <<>> \/ s = 0 THEN a ELSE ShiftRight(DivModSmall(a, 2).q, s - 1)

\* a.bit_length()
RECURSIVE BitLength(_)
BitLength(a) ==
    IF a = <<>> THEN 0 ELSE 1 + BitLength(DivModSmall(a, 2).q)

Pow2(e) == ShiftLeft(FromNat(1), e)

\* The int n, for a number small enough to write down.
PyInt(n) == IF n < 0 THEN [neg |-> TRUE, mag |-> FromNat(0 - n)]
            ELSE [neg |-> FALSE, mag |-> FromNat(n)]

\* x * k for an int x and 0 < k
IntMul(x, k) == [neg |-> x.neg, mag |-> MulSmall(x.mag, k)]

\* x + k for an int x and 0 <= k < LimbBase
IntAdd(x, k) ==
    IF ~x.neg THEN [neg |-> FALSE, mag |-> AddSmall(x.mag, k)]
    ELSE IF Len(x.mag) > 1 \/ x.mag[1] >= k
    THEN LET m == SubSmall(x.mag, k) IN [neg |-> m # <<>>, mag |-> m]
    ELSE [neg |-> FALSE, mag |-> FromNat(k - x.mag[1])]

\* `n > 0`
Positive(x) == ~x.neg /\ x.mag # <<>>

\* ---------------------------------------------------------- Python floats
\* A float is mant * 2^(-scale) or mant * 2^scale with mant of at most 53
\* bits: [mant, exp] stands for mant * 2^exp.
MantissaBits == 53

\* n / d rounded to the nearest integer, halves to the even one.
RoundHalfEven(n, d) ==
    LET qr == DivModSmall(n, d) IN
    IF 2 * qr.r > d \/ (2 * qr.r = d /\ DivModSmall(qr.q, 2).r = 1)
    THEN AddSmall(qr.q, 1)
    ELSE qr.q

\* The least s >= from with n * 2^s // d of MantissaBits bits, for n < d.
RECURSIVE ScaleUp(_, _, _)
ScaleUp(n, d, from) ==
    IF BitLength(DivModSmall(ShiftLeft(n, from), d).q) >= MantissaBits
    THEN from ELSE ScaleUp(n, d, from + 1)

\* `n / d` for a natural number n and a small d > 0: int's true division,
\* the float nearest to the quotient.
TrueDivide(n, d) ==
    IF n = <<>> THEN [mant |-> <<>>, exp |-> 0]
    ELSE LET bits == BitLength(DivModSmall(n, d).q) IN
         IF bits >= MantissaBits
         THEN LET t == bits - MantissaBits IN
              [mant |-> RoundHalfEven(n, d * 2^t), exp |-> t]
         ELSE LET s == IF bits > 0 THEN MantissaBits - bits
                       ELSE ScaleUp(n, d, MantissaBits)
              IN [mant |-> RoundHalfEven(ShiftLeft(n, s), d), exp |-> 0 - s]

\* `int(x)` for a float x >= 0: the whole part.
IntOfFloat(x) ==
    IF x.exp >= 0 THEN ShiftLeft(x.mant, x.exp)
    ELSE ShiftRight(x.mant, 0 - x.exp)

\* ------------------------------------------------------------------ base62
BASE == 62

\* base62.CHARSET_INVERTED, one character per element.
CHARSET_INVERTED ==
    << "0", "1", "2", "3", "4", "5", "6", "7", "8", "9",
       "a", "b", "c", "d", "e", "f", "g", "h", "i", "j", "k", "l", "m",
       "n", "o", "p", "q", "r", "s", "t", "u", "v", "w", "x", "y", "z",
       "A", "B", "C", "D", "E", "F", "G", "H", "I", "J", "K", "L", "M",
       "N", "O", "P", "Q", "R", "S", "T", "U", "V", "W", "X", "Y", "Z" >>

\* The digits of a natural number, most significant first:
\* `while n > 0: n, r = divmod(n, BASE); chs.insert(0, charset[r])`.
RECURSIVE EncodeDigits(_, _)
EncodeDigits(n, charset) ==
    IF n = <<>> THEN <<>>
    ELSE LET qr == DivModSmall(n, BASE) IN
         Append(EncodeDigits(qr.q, charset), charset[qr.r + 1])

\* base62.encode(n, charset): the loop runs only while n > 0, and with no
\* digit produced the result is "0".
base62_encode(n, charset) ==
    LET chs == IF Positive(n) THEN EncodeDigits(n.mag, charset) ELSE <<>> IN
    IF chs = <<>> THEN <<"0">> ELSE chs

\* charset.index(ch)
value(ch, charset) ==
    (CHOOSE k \in 1..Len(charset) : charset[k] = ch) - 1

\* ch * BASE ** power
RECURSIVE Term(_, _)
Term(v, power) == IF power = 0 THEN v ELSE Term(MulSmall(v, BASE), power - 1)

\* base62.decode(encoded, charset):
\* `v += _value(x, charset) * (BASE ** (l - (i + 1)))` for each character.
RECURSIVE DecodeFrom(_, _, _, _)
DecodeFrom(encoded, charset, i, v) ==
    IF i > Len(encoded) THEN v
    ELSE DecodeFrom(encoded, charset, i + 1,
             AddBig(v, Term(FromNat(value(encoded[i], charset)),
                            Len(encoded) - i), 0))

base62_decode(encoded, charset) ==
    [neg |-> FALSE, mag |-> DecodeFrom(encoded, charset, 1, Zero)]

\* ------------------------------------------------------------------- codec
\* (changed) the same tag digit for users and films
encode_id_untagged(internal_id, is_user) ==
    base62_encode(IntMul(internal_id, 10), CHARSET_INVERTED)

encode_id(internal_id, is_user) ==
    IF is_user
    THEN base62_encode(IntAdd(IntMul(internal_id, 10), 7), CHARSET_INVERTED)
    ELSE base62_encode(IntMul(internal_id, 10), CHARSET_INVERTED)

decode_id(external_id) ==
    [neg |-> FALSE,
     mag |-> IntOfFloat(TrueDivide(
                 base62_decode(external_id, CHARSET_INVERTED).mag, 10))]

\* ------------------------------------------------------ threaded_api_request
VARIABLES
    url_list,       \* argument: the urls to request
    max_retries,    \* argument
    max_threads,    \* argument
    print_every,    \* argument
    all_results,    \* list of collected payloads
    missing_urls,   \* list of urls that raised 404
    failed_urls,    \* list of urls that ran out of retries
    count,          \* runner's local counter of collected futures
    printed,        \* the counts printed by runner, in order
    pc,             \* where the calling thread is
    threads,        \* runner's list of submitted futures (task numbers)
    work_queue,     \* the executor's queue of work items not yet picked up
    fut,            \* the future of each submitted task
    worker,         \* each pool thread: its task and its retry_count
    ac,             \* the state of the as_completed generator
    raised,         \* the exception that task.result() raised in runner, if any
    log,            \* history: the outcome of every attempt of each task
    results_src,    \* history: the task each element of all_results came from
    completed,      \* history: the tasks in the order their futures finished
    json_failed,    \* history: whether some res.json() has raised
    run,            \* which call of threaded_api_request this is: 1 or 2
    prev,           \* history: what the call before this one returned
    wl_pc,          \* where get_member_watchlist is
    cursor,         \* paginate_watchlist's argument in the current call
    full_results,   \* get_member_watchlist's list of items
    wl_requests,    \* history: the cursor of every request made, in order
    wl_pages,       \* history: the pages the requests returned, in order
    codec_pc,       \* where the caller of the codec is
    internal_id,    \* encode_id's argument
    is_user,        \* encode_id's argument
    external_id,    \* what encode_id returned
    other_id,       \* a second call of encode_id: its arguments ...
    other_is_user,
    other_external, \* ... and what it returned
    decoded_id      \* what decode_id(external_id) returned

vars == <<url_list, max_retries, max_threads, print_every, all_results,
          missing_urls, failed_urls, count, printed, pc, threads, work_queue,
          fut, worker, ac, raised, log, results_src, completed, json_failed,
          run, prev, wl_pc, cursor, full_results, wl_requests,
          wl_pages, codec_pc, internal_id, is_user, external_id, other_id,
          other_is_user, other_external, decoded_id>>

codec_vars == <<codec_pc, internal_id, is_user, external_id, other_id,
                other_is_user, other_external, decoded_id>>

fetch_vars == <<url_list, max_retries, max_threads, print_every, all_results,
                missing_urls, failed_urls, count, printed, pc, threads,
                work_queue, fut, worker, ac, raised, log, results_src,
                completed, json_failed, run, prev>>

watch_vars == <<wl_pc, cursor, full_results, wl_requests, wl_pages>>

call_vars == <<run, prev>>

args == <<url_list, max_retries, max_threads, print_every>>

Tasks == 1..Len(url_list)

\* (changed) a pool with one thread per url, whatever max_threads says
Workers_per_url == 1..Len(url_list)

\* ThreadPoolExecutor(max_workers=max_threads): the pool's threads.
Workers == 1..max_threads

\* `if entry:` -- Python's truth value of what task.result() returned.
Truthy(entry) == entry # None /\ entry # "{}"

\* (changed) `except requests.RequestException as e`: what res.json() raises
\* is not caught
Caught_request_only(e) == e.stage = "api_request"

\* `except Exception as e` -- every error an attempt raises is an Exception.
Caught(e) == e \in Errors

\* (changed) `str(e)[0:3] == 404`: a string is never equal to a number
IsNotFound_never(e) == FALSE

\* `str(e)[0:3] == '404'`
IsNotFound(e) == e.str3 = "404"

\* (changed) `retry_count > max_retries + 1`
RetriesExhausted_late(rc) == rc > max_retries + 1

\* (changed) `retry_count >= max_retries`
RetriesExhausted_early(rc) == rc >= max_retries

\* `retry_count > max_retries`
RetriesExhausted(rc) == rc > max_retries

\* (changed) the test made before `count += 1`
ShouldPrint_before(c) == (c - 1) % print_every = 0

\* `count % print_every == 0`
ShouldPrint(c) == c % print_every = 0

\* What the history records of an attempt that raised e.
Outcome(e) == IF e.str3 = "404" THEN "404" ELSE "error"

NewFuture ==
    [state |-> "PENDING", result |-> None, exception |-> NoException]
IdleWorker == [task |-> 0, retry_count |-> 0]
NoWaiter == [installed |-> FALSE, finished |-> {}, pending |-> {},
             finished_futures |-> <<>>, batch |-> <<>>]

\* What external_id and decoded_id hold before the call that sets them.
NoExternalId == <<>>
NoInternalId == [neg |-> FALSE, mag |-> <<>>]

\* No call of the codec is under way.
CodecIdle ==
    /\ codec_pc = "off"
    /\ internal_id = PyInt(0)
    /\ is_user = FALSE
    /\ external_id = NoExternalId
    /\ other_id = PyInt(0)
    /\ other_is_user = FALSE
    /\ other_external = NoExternalId
    /\ decoded_id = NoInternalId

\* What prev holds in the first call.
NoCall == [all_results |-> <<>>, missing_urls |-> <<>>, failed_urls |-> <<>>,
           payload |-> <<>>, first_try |-> FALSE]

\* paginate_watchlist's cursor before it is called.
NoCursor == ""

\* No call of get_member_watchlist is under way.
WatchIdle ==
    /\ wl_pc = "off"
    /\ cursor = NoCursor
    /\ full_results = <<>>
    /\ wl_requests = <<>>
    /\ wl_pages = <<>>

\* A call threaded_api_request(url_list, max_retries, max_threads,
\* print_every) begins: the three lists are empty, nothing is submitted.
Init ==
    /\ CodecIdle
    /\ WatchIdle
    /\ run = 1
    /\ prev = NoCall
    /\ json_failed = FALSE
    /\ \E n \in 0..MaxTargets : url_list = [i \in 1..n |-> Url(i)]
    /\ max_retries \in 0..MaxRetries
    /\ max_threads \in 1..MaxThreads
    /\ print_every \in 1..MaxPrintEvery
    /\ all_results = <<>>
    /\ missing_urls = <<>>
    /\ failed_urls = <<>>
    /\ count = 0
    /\ printed = <<>>
    /\ pc = IF url_list = <<>> THEN "as_completed" ELSE "submit"
    /\ threads = <<>>
    /\ work_queue = <<>>
    /\ fut = [i \in Tasks |-> NewFuture]
    /\ worker = [w \in Workers |-> IdleWorker]
    /\ ac = NoWaiter
    /\ raised = NoException
    /\ log = [i \in Tasks |-> <<>>]
    /\ results_src = <<>>
    /\ completed = <<>>

\* ------------------------------------------------------------------ runner
\* `threads.append(executor.submit(error_handler, url))`, one url per step.
Submit ==
    /\ pc = "submit"
    /\ LET i == Len(threads) + 1 IN
        /\ threads' = Append(threads, i)
        /\ work_queue' = Append(work_queue, i)
        /\ pc' = IF i = Len(url_list) THEN "as_completed" ELSE "submit"
    /\ UNCHANGED <<args, codec_vars, watch_vars, call_vars,
                   json_failed, all_results, missing_urls,
                   failed_urls, count,
                   printed, fut, worker, ac, raised, log, results_src,
                   completed>>

\* A pool thread with nothing to do takes the oldest queued work item and
\* enters error_handler: `retry_count = 0`.  The pool's threads are
\* interchangeable, so of the idle ones the least-numbered takes it.
Pickup(w) ==
    /\ worker[w].task = 0
    /\ \A v \in Workers : v < w => worker[v].task # 0
    /\ work_queue # <<>>
    /\ LET i == Head(work_queue) IN
        /\ work_queue' = Tail(work_queue)
        /\ fut' = [fut EXCEPT ![i].state = "RUNNING"]
        /\ worker' = [worker EXCEPT ![w] = [task |-> i, retry_count |-> 0]]
    /\ UNCHANGED <<args, codec_vars, watch_vars, call_vars,
                   json_failed, all_results, missing_urls,
                   failed_urls, count,
                   printed, pc, threads, ac, raised, log, results_src,
                   completed>>

\* error_handler returned `result` or let `exception` out: the work item sets
\* the future, which tells an installed as_completed waiter, and the pool
\* thread is free again.
Finish(w, result, exception) ==
    LET i == worker[w].task IN
    /\ fut' = [fut EXCEPT ![i] = [state |-> "FINISHED", result |-> result,
                                  exception |-> exception]]
    /\ worker' = [worker EXCEPT ![w] = IdleWorker]
    /\ ac' = IF ac.installed
             THEN [ac EXCEPT !.finished_futures = Append(@, i)]
             ELSE ac
    /\ completed' = Append(completed, i)

\* One turn of error_handler's loop in which api_request(url) and res.json()
\* both return: `return res.json()`.
AttemptReturns(w, payload) ==
    /\ worker[w].task # 0
    /\ log' = [log EXCEPT ![worker[w].task] = Append(@, "ok")]
    /\ Finish(w, payload, NoException)
    /\ UNCHANGED <<args, codec_vars, watch_vars, call_vars,
                   json_failed, all_results, missing_urls,
                   failed_urls, count,
                   printed, pc, threads, work_queue, raised, results_src>>

\* (changed) the url is handed to the executor again and the thread is freed
Retry_resubmit(w, rc) ==
    LET i == worker[w].task IN
    /\ worker' = [worker EXCEPT ![w] = IdleWorker]
    /\ work_queue' = Append(work_queue, i)
    /\ fut' = [fut EXCEPT ![i].state = "PENDING"]
    /\ UNCHANGED <<ac, completed>>

\* After `retry_count += 1`, with retries left: the `while True` loop goes
\* round again in the same thread.
Retry(w, rc) ==
    /\ worker' = [worker EXCEPT ![w].retry_count = rc]
    /\ UNCHANGED <<work_queue, fut, ac, completed>>

\* One turn of error_handler's loop in which api_request(url) or res.json()
\* raises e: the except clause.
AttemptRaises(w, e) ==
    /\ worker[w].task # 0
    /\ LET i == worker[w].task
           rc == worker[w].retry_count + 1
       IN
        /\ log' = [log EXCEPT ![i] = Append(@, Outcome(e))]
        /\ IF ~Caught(e)
           THEN /\ Finish(w, None, e)
                /\ UNCHANGED <<missing_urls, failed_urls, work_queue>>
           ELSE IF IsNotFound(e)
           THEN /\ missing_urls' = Append(missing_urls, url_list[i])
                /\ Finish(w, None, NoException)
                /\ UNCHANGED <<failed_urls, work_queue>>
           ELSE IF RetriesExhausted(rc)
           THEN /\ failed_urls' = Append(failed_urls, url_list[i])
                /\ Finish(w, None, NoException)
                /\ UNCHANGED <<missing_urls, work_queue>>
           ELSE /\ Retry(w, rc)
                /\ UNCHANGED <<missing_urls, failed_urls>>
    /\ json_failed' = (json_failed \/ e.stage = "json")
    /\ UNCHANGED <<args, codec_vars, watch_vars, call_vars,
                   all_results, count, printed, pc, threads, raised,
                   results_src>>

\* The first next() of as_completed(threads): the futures already finished
\* are set aside as a set, the others are pending, and a waiter is installed
\* on all of them.
AsCompletedStart ==
    /\ pc = "as_completed"
    /\ LET done == {i \in Tasks : fut[i].state = "FINISHED"} IN
        /\ ac' = [installed |-> TRUE, finished |-> done,
                  pending |-> Tasks \ done, finished_futures |-> <<>>,
                  batch |-> <<>>]
        /\ pc' = IF done # {} THEN "yield_finished"
                 ELSE IF Tasks \ done # {} THEN "wait" ELSE "shutdown"
    /\ UNCHANGED <<args, codec_vars, watch_vars, call_vars,
                   json_failed, all_results, missing_urls,
                   failed_urls, count,
                   printed, threads, work_queue, fut, worker, raised, log,
                   results_src, completed>>

\* Where the generator goes after the loop body, given its next state.
Resume(a) ==
    IF a.finished # {} THEN "yield_finished"
    ELSE IF a.batch # <<>> THEN "yield_batch"
    ELSE IF a.pending # {} THEN "wait"
    ELSE "shutdown"

\* The body of `for task in as_completed(threads)` for the yielded future i.
LoopBody(i, a) ==
    IF fut[i].exception # NoException
    THEN /\ raised' = fut[i].exception
         /\ pc' = "shutdown_raise"
         /\ UNCHANGED <<all_results, results_src, count, printed>>
    ELSE LET entry == fut[i].result IN
         /\ all_results' = IF Truthy(entry) THEN Append(all_results, entry)
                           ELSE all_results
         /\ results_src' = IF Truthy(entry) THEN Append(results_src, i)
                           ELSE results_src
         /\ count' = count + 1
         /\ printed' = IF ShouldPrint(count + 1)
                       THEN Append(printed, count + 1) ELSE printed
         /\ pc' = Resume(a)
         /\ UNCHANGED raised

\* as_completed yields one of the futures that had finished before it
\* started; they are kept in a set, so in no particular order.
YieldFinished(i) ==
    /\ pc = "yield_finished"
    /\ i \in ac.finished
    /\ ac' = [ac EXCEPT !.finished = @ \ {i}]
    /\ LoopBody(i, ac')
    /\ UNCHANGED <<args, codec_vars, watch_vars, call_vars,
                   json_failed, missing_urls, failed_urls,
                   threads, work_queue, fut, worker, log, completed>>

\* (changed) the futures taken from the waiter yielded newest first
RECURSIVE BatchOrder_newest_first(_)
BatchOrder_newest_first(finished_futures) ==
    IF finished_futures = <<>> THEN <<>>
    ELSE Append(BatchOrder_newest_first(Tail(finished_futures)),
                Head(finished_futures))

\* The order in which as_completed yields the futures it takes from the
\* waiter: the waiter appends each future as it finishes, and as_completed
\* reverses the list and pops from its end, so oldest first.
BatchOrder(finished_futures) == finished_futures

\* `waiter.event.wait()`: as_completed blocks until a pending future has
\* finished, then takes all the waiter has gathered.
Wait ==
    /\ pc = "wait"
    /\ ac.finished_futures # <<>>
    /\ ac' = [ac EXCEPT !.batch = BatchOrder(ac.finished_futures),
                        !.finished_futures = <<>>]
    /\ pc' = "yield_batch"
    /\ UNCHANGED <<args, codec_vars, watch_vars, call_vars,
                   json_failed, all_results, missing_urls,
                   failed_urls, count,
                   printed, threads, work_queue, fut, worker, raised, log,
                   results_src, completed>>

\* as_completed yields the next future of the batch taken from the waiter,
\* oldest first.
YieldBatch ==
    /\ pc = "yield_batch"
    /\ LET i == Head(ac.batch) IN
        /\ ac' = [ac EXCEPT !.batch = Tail(@), !.pending = @ \ {i}]
        /\ LoopBody(i, ac')
    /\ UNCHANGED <<args, codec_vars, watch_vars, call_vars,
                   json_failed, missing_urls, failed_urls,
                   threads, work_queue, fut, worker, log, completed>>

\* Leaving `with ThreadPoolExecutor(...)`: shutdown(wait=True) joins the pool
\* threads, which first run every work item still queued.  Then either
\* `return all_results, missing_urls, failed_urls` or the exception that
\* task.result() raised goes on to the caller.
ExecutorExit ==
    /\ pc \in {"shutdown", "shutdown_raise"}
    /\ \A i \in Tasks : fut[i].state = "FINISHED"
    /\ pc' = IF pc = "shutdown" THEN "done" ELSE "raised"
    /\ UNCHANGED <<args, codec_vars, watch_vars, call_vars,
                   json_failed, all_results, missing_urls,
                   failed_urls, count,
                   printed, threads, work_queue, fut, worker, ac, raised,
                   log, results_src, completed>>

Next ==
    \/ Submit
    \/ \E w \in Workers : Pickup(w)
    \/ \E w \in Workers : \E payload \in Payloads : AttemptReturns(w, payload)
    \/ \E w \in Workers : \E e \in Errors : AttemptRaises(w, e)
    \/ AsCompletedStart
    \/ \E i \in Tasks : YieldFinished(i)
    \/ Wait
    \/ YieldBatch
    \/ ExecutorExit

Spec == Init /\ [][Next]_vars

\* ------------------------------------------------------ calls of the codec
\* 2^e + d
NearPow2(e, d) ==
    [neg |-> FALSE,
     mag |-> IF d < 0 THEN SubSmall(Pow2(e), 0 - d) ELSE AddSmall(Pow2(e), d)]

\* The ids the codec is called with.
Ids ==
    {PyInt(n) : n \in (0 - MaxNegId)..MaxSmallId}
        \cup {PyInt(12345), [neg |-> TRUE, mag |-> Pow2(MaxExp - 1)]}
        \cup {NearPow2(e, d) : e \in (MaxExp - 3)..MaxExp, d \in {-1, 0, 1}}

\* No call of threaded_api_request is under way.
FetchIdle ==
    /\ url_list = <<>>
    /\ max_retries = 0
    /\ max_threads = 1
    /\ print_every = 1
    /\ all_results = <<>>
    /\ missing_urls = <<>>
    /\ failed_urls = <<>>
    /\ count = 0
    /\ printed = <<>>
    /\ pc = "off"
    /\ threads = <<>>
    /\ work_queue = <<>>
    /\ fut = <<>>
    /\ worker = <<>>
    /\ ac = NoWaiter
    /\ raised = NoException
    /\ log = <<>>
    /\ results_src = <<>>
    /\ completed = <<>>
    /\ json_failed = FALSE
    /\ run = 1
    /\ prev = NoCall

CodecInit ==
    /\ FetchIdle
    /\ WatchIdle
    /\ codec_pc = "start"
    /\ internal_id \in Ids
    /\ is_user \in BOOLEAN
    /\ other_id \in Ids
    /\ other_is_user \in BOOLEAN
    /\ external_id = NoExternalId
    /\ other_external = NoExternalId
    /\ decoded_id = NoInternalId

\* external_id = encode_id(internal_id, is_user)
EncodeId ==
    /\ codec_pc = "start"
    /\ external_id' = encode_id(internal_id, is_user)
    /\ codec_pc' = "encoded"
    /\ UNCHANGED <<fetch_vars, watch_vars, internal_id, is_user, other_id,
                   other_is_user,
                   other_external, decoded_id>>

\* other_external = encode_id(other_id, other_is_user)
EncodeOther ==
    /\ codec_pc = "encoded"
    /\ other_external' = encode_id(other_id, other_is_user)
    /\ codec_pc' = "both_encoded"
    /\ UNCHANGED <<fetch_vars, watch_vars, internal_id, is_user, other_id,
                   other_is_user,
                   external_id, decoded_id>>

\* decoded_id = decode_id(external_id)
DecodeId ==
    /\ codec_pc = "both_encoded"
    /\ decoded_id' = decode_id(external_id)
    /\ codec_pc' = "decoded"
    /\ UNCHANGED <<fetch_vars, watch_vars, internal_id, is_user, other_id,
                   other_is_user,
                   external_id, other_external>>

CodecNext == EncodeId \/ EncodeOther \/ DecodeId

CodecSpec == CodecInit /\ [][CodecNext]_vars

\* ------------------------------------------------- get_member_watchlist
\* The items the service may list.
Items == {"film1", "film2"}

\* What wl_json['items'] may be.
ItemLists == UNION {[1..n -> Items] : n \in 0..MaxItems}

\* What wl_json['next'] may be; NoNext stands for a page without the key.
Cursors == {"start=100", "start=200"}
NoNext == "(no next)"

\* What wl_response.json() may be for a response with status 200.
Pages == [items : ItemLists, next : Cursors \cup {NoNext}]

\* paginate_watchlist's default for cursor.
DefaultCursor == "start=0"

\* How the f-string of the request path renders a list given as cursor.
str(list) == IF list = <<>> THEN "[]" ELSE "[...]"

\* A call get_member_watchlist(member_id) begins.
WatchInit ==
    /\ FetchIdle
    /\ CodecIdle
    /\ wl_pc = "start"
    /\ cursor = NoCursor
    /\ full_results = <<>>
    /\ wl_requests = <<>>
    /\ wl_pages = <<>>

\* `full_results = []` and `paginate_watchlist(full_results)`: the list is
\* given as the cursor, so the default is not used.
CallPaginate ==
    /\ wl_pc = "start"
    /\ cursor' = str(full_results)
    /\ wl_pc' = "request"
    /\ UNCHANGED <<fetch_vars, codec_vars, full_results, wl_requests,
                   wl_pages>>

\* api_request(f'member/{member_id}/watchlist?perPage=100&cursor={cursor}')
\* is sent.
Request ==
    /\ wl_pc = "request"
    /\ wl_requests' = Append(wl_requests, cursor)
    /\ wl_pc' = "response"
    /\ UNCHANGED <<fetch_vars, codec_vars, cursor, full_results, wl_pages>>

\* The request raises, or its status is not 200 and ValueError is raised, or
\* the body is not JSON or has no 'items': the exception leaves every
\* paginate_watchlist on the stack and get_member_watchlist.
RequestFails ==
    /\ wl_pc = "response"
    /\ wl_pc' = "raised"
    /\ UNCHANGED <<fetch_vars, codec_vars, cursor, full_results, wl_requests,
                   wl_pages>>

\* The response has status 200 and its body is the page wl_json: the items
\* are added to full_results, and with a 'next' paginate_watchlist calls
\* itself with it; without, every paginate_watchlist on the stack returns.
RequestReturns(wl_json) ==
    /\ wl_pc = "response"
    /\ wl_json.next # NoNext => Len(wl_pages) + 1 < MaxPages
    /\ wl_pages' = Append(wl_pages, wl_json)
    /\ full_results' = full_results \o wl_json.items
    /\ IF wl_json.next # NoNext
       THEN cursor' = wl_json.next /\ wl_pc' = "request"
       ELSE cursor' = cursor /\ wl_pc' = "return"
    /\ UNCHANGED <<fetch_vars, codec_vars, wl_requests>>

\* `return pd.DataFrame(full_results)`
WatchReturn ==
    /\ wl_pc = "return"
    /\ wl_pc' = "returned"
    /\ UNCHANGED <<fetch_vars, codec_vars, cursor, full_results, wl_requests,
                   wl_pages>>

WatchNext ==
    \/ CallPaginate
    \/ Request
    \/ RequestFails
    \/ \E wl_json \in Pages : RequestReturns(wl_json)
    \/ WatchReturn

WatchSpec == WatchInit /\ [][WatchNext]_vars

\* ------------------------------------------------------------- properties
\* How many times x occurs in the list s.
Occurrences(x, s) == Cardinality({k \in 1..Len(s) : s[k] = x})

Finished(i) == fut[i].state = "FINISHED"
InFlight == {i \in Tasks : fut[i].state = "RUNNING"}
Queued == {work_queue[k] : k \in 1..Len(work_queue)}

\* Task i's payload is in all_results.
InResults(i) ==
    \E k \in 1..Len(all_results) :
        results_src[k] = i /\ all_results[k] = fut[i].result
InMissing(i) == Occurrences(url_list[i], missing_urls) > 0
InFailed(i) == Occurrences(url_list[i], failed_urls) > 0

\* Every attempt of task i so far raised an error other than a 404.
OnlyErrors(i) ==
    log[i] # <<>> /\ \A k \in 1..Len(log[i]) : log[i][k] = "error"

\* C1: when threaded_api_request returns, every submitted url is accounted
\* for in exactly one of the three lists: its payload in all_results, or the
\* url in missing_urls, or the url in failed_urls.
C1_ExactlyOneList ==
    pc = "done" =>
        \A i \in Tasks :
            /\ InResults(i) \/ InMissing(i) \/ InFailed(i)
            /\ ~(InResults(i) /\ InMissing(i))
            /\ ~(InResults(i) /\ InFailed(i))
            /\ ~(InMissing(i) /\ InFailed(i))

\* C2: decoding what encode_id returned for a non-negative id gives the id
\* back, for users and for films.
C2_RoundTrip ==
    (codec_pc = "decoded" /\ ~internal_id.neg) => decoded_id = internal_id

\* C3: two different pairs (id, is_user) with non-negative ids never encode
\* to the same external id.
C3_Injective ==
    ( /\ codec_pc \in {"both_encoded", "decoded"}
      /\ ~internal_id.neg /\ ~other_id.neg
      /\ <<internal_id, is_user>> # <<other_id, other_is_user>> )
        => external_id # other_external

C3_Witness ==
    /\ codec_pc = "both_encoded"
    /\ internal_id = other_id
    /\ internal_id = PyInt(12345)
    /\ is_user /\ ~other_is_user
    /\ external_id # other_external

\* C4: a url whose every attempt raises an error other than a 404 is
\* attempted max_retries + 1 times, no fewer and no more, and is then once in
\* failed_urls and in neither of the other two lists.
C4_FailedAfterRetries ==
    \A i \in Tasks :
        OnlyErrors(i) =>
            /\ Len(log[i]) <= max_retries + 1
            /\ Finished(i) <=> Len(log[i]) = max_retries + 1
            /\ Finished(i) =>
                /\ Occurrences(url_list[i], failed_urls) = 1
                /\ ~InMissing(i)
                /\ \A k \in 1..Len(results_src) : results_src[k] # i
            /\ ~Finished(i) => ~InFailed(i)

C4_Witness ==
    /\ pc = "done"
    /\ max_retries = 1
    /\ \E i \in Tasks :
        /\ log[i] = <<"error", "error">>
        /\ Occurrences(url_list[i], failed_urls) = 1

\* C5: an attempt that raises an error starting with 404 is the url's last
\* attempt: the url is at once in missing_urls, once, and is never in
\* all_results or failed_urls.
C5_NotFoundIsFinal ==
    \A i \in Tasks :
        \A k \in 1..Len(log[i]) :
            log[i][k] = "404" =>
                /\ k = Len(log[i])
                /\ Finished(i)
                /\ Occurrences(url_list[i], missing_urls) = 1
                /\ ~InFailed(i)
                /\ \A j \in 1..Len(results_src) : results_src[j] # i

C5_Witness ==
    /\ pc = "done"
    /\ \E i \in Tasks :
        /\ log[i] = <<"error", "404">>
        /\ Occurrences(url_list[i], missing_urls) = 1

\* C6: when every url succeeds at its first attempt, all_results has one
\* element per url and the other two lists are empty.
C6_AllSucceed ==
    (pc = "done" /\ \A i \in Tasks : log[i] = <<"ok">>) =>
        /\ Len(all_results) = Len(url_list)
        /\ missing_urls = <<>>
        /\ failed_urls = <<>>

\* C7: at most max_threads urls are being attempted at any time, a url still
\* in the queue has had no attempt, and a url leaves the queue only when
\* fewer than max_threads urls are being attempted.
C7_BoundedInFlight ==
    /\ [](Cardinality(InFlight) <= max_threads)
    /\ [](\A i \in Tasks : fut[i].state = "PENDING" => log[i] = <<>>)
    /\ [][\A i \in Tasks :
            (fut[i].state = "PENDING" /\ fut'[i].state = "RUNNING")
                => Cardinality(InFlight) < max_threads]_vars

C7_Witness ==
    /\ Cardinality(InFlight) = max_threads
    /\ Queued # {}
    /\ \E i \in InFlight : Len(log[i]) > 0

\* C8: encode_id with a negative id gives the caller an error and no
\* external id.
C8_NegativeRejected ==
    (codec_pc # "start" /\ internal_id.neg) => external_id = NoExternalId

\* C9: runner prints exactly at the counts that are multiples of print_every,
\* and prints the count: after c futures are collected the printed counts
\* are print_every, 2 * print_every, ... up to c, and at the end c is the
\* number of urls.
C9_Progress ==
    /\ printed = [k \in 1..(count \div print_every) |-> k * print_every]
    /\ pc = "done" => count = Len(url_list)

C9_Witness ==
    /\ pc = "done"
    /\ print_every = 2
    /\ printed = <<2>>
    /\ missing_urls # <<>>
    /\ failed_urls # <<>>

\* C10: no error of an attempt leaves threaded_api_request: no future holds
\* an exception, task.result() never raises, and a url whose last attempt
\* raised is in missing_urls or failed_urls once its future is finished.
C10_NeverRaises ==
    /\ raised = NoException
    /\ pc \notin {"shutdown_raise", "raised"}
    /\ \A i \in Tasks :
        /\ fut[i].exception = NoException
        /\ (Finished(i) /\ log[i][Len(log[i])] # "ok")
              => (InMissing(i) \/ InFailed(i))

C10_Witness ==
    /\ pc = "done"
    /\ json_failed
    /\ missing_urls # <<>>
    /\ failed_urls # <<>>

\* Where x is in the list s, which holds it once.
Position(x, s) == CHOOSE k \in 1..Len(s) : s[k] = x

\* C11 as claimed: the payloads in all_results are in the order in which
\* their urls' futures finished, whenever those finished.
C11_CompletionOrder ==
    \A j, k \in 1..Len(results_src) :
        j < k => Position(results_src[j], completed)
                    < Position(results_src[k], completed)

\* The futures the loop in runner has been given so far.
Collected ==
    IF ac.installed THEN Tasks \ (ac.finished \cup ac.pending) ELSE {}

\* C11 as amended: the loop in runner is given the futures, and so
\* all_results the payloads, in the order in which the futures finished,
\* except that futures which had already finished when as_completed began
\* (ac.finished) come in any order among themselves: a future is given to
\* the loop while one that finished before it is still to come only when
\* both had finished before as_completed began.
C11_CompletionOrderOnceCollecting ==
    [][\A a, b \in Tasks :
         ( /\ b \notin Collected /\ b \in Collected'
           /\ a \notin Collected /\ a # b
           /\ Finished(a)
           /\ Position(a, completed) < Position(b, completed) )
             => {a, b} \subseteq ac.finished]_vars

C11_Witness ==
    /\ pc = "yield_batch"
    /\ ac.batch = <<1>>
    /\ completed = <<2, 1>>
    /\ results_src = <<2>>
    /\ Len(all_results) = 1

\* -------------------------------------- threaded_api_request, called twice
\* (changed) lists made once and shared by every call
NewList_kept(old) == old

\* `all_results = []`, `missing_urls = []`, `failed_urls = []`: each call
\* makes its own lists, whatever an earlier call left in its lists.
NewList(old) == <<>>

\* threaded_api_request has returned and is called again with the same
\* arguments; prev keeps what the first call returned and was answered.
CallAgain ==
    /\ pc = "done"
    /\ run = 1
    /\ run' = 2
    /\ prev' = [all_results |-> all_results,
                missing_urls |-> missing_urls,
                failed_urls |-> failed_urls,
                payload |-> [i \in Tasks |-> fut[i].result],
                first_try |-> \A i \in Tasks : log[i] = <<"ok">>]
    /\ all_results' = NewList(all_results)
    /\ results_src' = NewList(results_src)
    /\ missing_urls' = NewList(missing_urls)
    /\ failed_urls' = NewList(failed_urls)
    /\ count' = 0
    /\ printed' = <<>>
    /\ pc' = IF url_list = <<>> THEN "as_completed" ELSE "submit"
    /\ threads' = <<>>
    /\ work_queue' = <<>>
    /\ fut' = [i \in Tasks |-> NewFuture]
    /\ worker' = [w \in Workers |-> IdleWorker]
    /\ ac' = NoWaiter
    /\ raised' = NoException
    /\ log' = [i \in Tasks |-> <<>>]
    /\ completed' = <<>>
    /\ json_failed' = FALSE
    /\ UNCHANGED <<args, codec_vars, watch_vars>>

\* The payloads the server may answer with when two calls are compared.
MorePayloads == Payloads \cup {"{b}"}

\* The server answers a url with the same payload as in the call before.
SameResponse(w, payload) ==
    run = 2 => payload = prev.payload[worker[w].task]

\* Two calls in a row, with a server that answers every request at once and
\* answers a url the same way in both calls.
TwiceNext ==
    \/ Submit
    \/ \E w \in Workers : Pickup(w)
    \/ \E w \in Workers : \E payload \in MorePayloads :
          /\ worker[w].task # 0
          /\ SameResponse(w, payload)
          /\ AttemptReturns(w, payload)
    \/ AsCompletedStart
    \/ \E i \in Tasks : YieldFinished(i)
    \/ Wait
    \/ YieldBatch
    \/ ExecutorExit
    \/ CallAgain

TwiceSpec == Init /\ [][TwiceNext]_vars

\* The lists s and t hold the same elements the same number of times.
SameElements(s, t) ==
    \A x \in MorePayloads : Occurrences(x, s) = Occurrences(x, t)

\* C12: two calls on the same urls, every attempt succeeding and every url
\* answered alike in both, return all_results with the same elements, in
\* whatever order, and empty missing_urls and failed_urls both times.
C12_SameElementsTwice ==
    (pc = "done" /\ run = 2) =>
        /\ SameElements(all_results, prev.all_results)
        /\ missing_urls = <<>> /\ failed_urls = <<>>
        /\ prev.missing_urls = <<>> /\ prev.failed_urls = <<>>

C12_Witness ==
    /\ pc = "done" /\ run = 2
    /\ prev.first_try
    /\ prev.all_results = <<"{a}", "{b}">>
    /\ all_results = <<"{b}", "{a}">>

\* ------------------------------------------------------------ termination
\* Every request attempt returns or raises in the end and every thread that
\* can take a step takes one in the end.
FairSpec == Spec /\ WF_vars(Next)

\* C13: the call returns in the end, every url then has its outcome, no url
\* is attempted more than max_retries + 1 times, and no url is attempted
\* again once its future is finished.
C13_Terminates ==
    /\ <>(pc = "done")
    /\ [](pc = "done" => \A i \in Tasks : Finished(i) /\ log[i] # <<>>)
    /\ [](\A i \in Tasks : Len(log[i]) <= max_retries + 1)
    /\ [][\A i \in Tasks : Finished(i) => log'[i] = log[i]]_vars

C13_Witness ==
    /\ pc = "done"
    /\ max_retries = 1
    /\ \E i, j \in Tasks :
        /\ log[i] = <<"error", "error">>
        /\ log[j] = <<"error", "ok">>

\* ------------------------------------------------- the per-url retry count
\* Task i's attempts so far: k that raised an error other than a 404
\* (0 <= k <= max_retries), then one that returned.
ErrorsThenOk(i) ==
    /\ log[i] # <<>>
    /\ Len(log[i]) <= max_retries + 1
    /\ log[i][Len(log[i])] = "ok"
    /\ \A k \in 1..(Len(log[i]) - 1) : log[i][k] = "error"

\* C14: retry_count counts the failed attempts of the thread's own url only;
\* a url is in failed_urls only after max_retries + 1 failed attempts of its
\* own; and when the call has returned, a url whose attempts failed k times
\* (k <= max_retries) and then succeeded has its payload in all_results and
\* is in neither missing_urls nor failed_urls.
C14_PerTargetRetries ==
    /\ \A w \in Workers :
        worker[w].task # 0 =>
            worker[w].retry_count = Len(log[worker[w].task])
    /\ \A i \in Tasks :
        /\ Len(log[i]) <= max_retries + 1
        /\ InFailed(i) => OnlyErrors(i) /\ Len(log[i]) = max_retries + 1
    /\ pc = "done" =>
        \A i \in Tasks :
            ErrorsThenOk(i) => InResults(i) /\ ~InMissing(i) /\ ~InFailed(i)

\* --------------------------------------------- one thread per url's attempts
\* The pool threads that are running error_handler for task i.
Holders(i) == {w \in Workers : worker[w].task = i}

\* C15: a url is never with two pool threads at once; a url in the executor's
\* queue has had no attempt and is with no thread, so a retry is never queued
\* again; a url with an attempt behind it and no outcome yet is still with
\* its thread; an attempt is made only by the thread the url is with; and a
\* thread lets go of its url only when the url's future is finished.
C15_OneWorkerPerTarget ==
    /\ [](\A i \in Tasks :
            /\ Cardinality(Holders(i)) <= 1
            /\ Occurrences(i, work_queue) <= 1
            /\ i \in Queued => log[i] = <<>> /\ Holders(i) = {}
            /\ (log[i] # <<>> /\ ~Finished(i)) => Cardinality(Holders(i)) = 1)
    /\ [][\A i \in Tasks :
            /\ log'[i] # log[i] => Holders(i) # {}
            /\ \A w \in Holders(i) :
                 worker'[w].task # i =>
                     worker'[w].task = 0 /\ fut'[i].state = "FINISHED"]_vars

C15_Witness ==
    /\ worker[1] = [task |-> 1, retry_count |-> 1]
    /\ log[1] = <<"error">>
    /\ work_queue = <<2>>
    /\ max_threads = 1

\* ------------------------------------------------------- decode_id's tenth
\* floor(tagged / 10)
FloorTenth(tagged) == [neg |-> FALSE, mag |-> DivModSmall(tagged.mag, 10).q]

\* C16: decode_id(external_id) is floor(tagged / 10) for the tagged number
\* that external_id spells, and so the user's and the film's external id of
\* one non-negative id decode to the same number.
C16_FloorDivision ==
    (codec_pc = "decoded" /\ ~internal_id.neg) =>
        /\ decoded_id = FloorTenth(base62_decode(external_id, CHARSET_INVERTED))
        /\ decode_id(encode_id(internal_id, TRUE))
               = decode_id(encode_id(internal_id, FALSE))

\* ------------------------------------------------------- the cursor chain
\* The items of the pages, one page after the other.
RECURSIVE Flatten(_)
Flatten(pages) ==
    IF pages = <<>> THEN <<>>
    ELSE Head(pages).items \o Flatten(Tail(pages))

\* C17: the first request of get_member_watchlist has the cursor 'start=0',
\* every later request has the 'next' of the page before it, no request
\* follows a page without 'next', and full_results, of which the returned
\* table is made, holds the items of the pages fetched, in that order.
C17_CursorChain ==
    /\ wl_requests # <<>> => wl_requests[1] = DefaultCursor
    /\ \A k \in 2..Len(wl_requests) :
        /\ k - 1 <= Len(wl_pages)
        /\ wl_pages[k - 1].next # NoNext
        /\ wl_requests[k] = wl_pages[k - 1].next
    /\ \A k \in 1..Len(wl_pages) :
        wl_pages[k].next = NoNext =>
            k = Len(wl_pages) /\ Len(wl_requests) = k
    /\ full_results = Flatten(wl_pages)
    /\ wl_pc = "returned" =>
        /\ wl_pages # <<>>
        /\ wl_pages[Len(wl_pages)].next = NoNext
====
